---- MODULE Spec2Model ----
(***************************************************************************)
(* Model of code/extract-summary-files.py: main() reads standard input     *)
(* line by line, recognises marker lines "===== <name> =====", buffers the *)
(* other lines and writes each buffered segment with write_to_file().      *)
(*                                                                         *)
(* A line is a sequence of one-character strings, a file's content is the  *)
(* sequence of characters written to it, and the file system is a function *)
(* from the names of the existing files to their content.                  *)
(***************************************************************************)
EXTENDS Naturals, Sequences, FiniteSets

VARIABLES
    input,          \* the lines sys.stdin yields, in order (fixed during a run)
    pos,            \* index of the next line the for loop will read
    current_file,   \* main's current_file; None before the first marker
    current_lines,  \* main's current_lines
    files,          \* the file system: existing file name |-> content
    writes,         \* the calls of write_to_file made so far, in order:
                    \* [name, lines, ok], ok = the call returned normally
    pc,             \* "loop" | "done" | "failed" (an I/O error left main)
    segments        \* the named segments the input was assembled from
                    \* (SpecRT only; empty under the other specifications)

vars == <<input, pos, current_file, current_lines, files, writes, pc, segments>>

-----------------------------------------------------------------------------
(* Bounds *)

\* longest input, in lines (marker lines included)
MaxLen == 4

-----------------------------------------------------------------------------
(* Characters and text *)

\* str.strip() without arguments removes whitespace characters
Whitespace == {" ", "\t", "\n", "\r", "\f"}

\* the character class [a-zA-Z0-9._] of filename_pattern
IdChar ==
    { "a", "b", "c", "d", "e", "f", "g", "h", "i", "j", "k", "l", "m",
      "n", "o", "p", "q", "r", "s", "t", "u", "v", "w", "x", "y", "z",
      "A", "B", "C", "D", "E", "F", "G", "H", "I", "J", "K", "L", "M",
      "N", "O", "P", "Q", "R", "S", "T", "U", "V", "W", "X", "Y", "Z",
      "0", "1", "2", "3", "4", "5", "6", "7", "8", "9", ".", "_" }

\* the literal "===== " the pattern starts with
PatternHead == <<"=", "=", "=", "=", "=", " ">>

\* the literal " =====" the pattern ends with
PatternTail == <<" ", "=", "=", "=", "=", "=">>

\* current_file = None; a captured name is never empty (the group is [...]+)
None == <<>>

\* the value of a failed match (re.match returns None)
NoMatch == <<>>

RECURSIVE lstrip(_)
lstrip(s) ==
    IF s # <<>> /\ Head(s) \in Whitespace THEN lstrip(Tail(s)) ELSE s

RECURSIVE rstrip(_)
rstrip(s) ==
    IF s # <<>> /\ s[Len(s)] \in Whitespace
    THEN rstrip(SubSeq(s, 1, Len(s) - 1))
    ELSE s

\* line.rstrip() in the place of line.strip()
strip_trailing(s) == rstrip(s)

\* line.strip()
strip(s) == rstrip(lstrip(s))

\* whether the literal lit stands in s at index i
LiteralAt(s, i, lit) ==
    /\ i + Len(lit) - 1 <= Len(s)
    /\ SubSeq(s, i, i + Len(lit) - 1) = lit

\* length of the longest run of IdChar in s from index i: the greedy [...]+
RECURSIVE RunLen(_, _)
RunLen(s, i) ==
    IF i <= Len(s) /\ s[i] \in IdChar THEN 1 + RunLen(s, i + 1) ELSE 0

\* the pattern with the class [^=] in the place of [a-zA-Z0-9._]
filename_pattern_match_loose(s) ==
    LET first == Len(PatternHead) + 1
        ends  == {n \in 1..Len(s) :
                    /\ LiteralAt(s, first + n, PatternTail)
                    /\ \A i \in first..(first + n - 1) : s[i] # "="}
    IN  IF LiteralAt(s, 1, PatternHead) /\ ends # {}
        THEN SubSeq(s, first, first + (CHOOSE n \in ends : \A m \in ends : m <= n) - 1)
        ELSE NoMatch

\* filename_pattern.fullmatch(s) in the place of filename_pattern.match(s)
filename_pattern_fullmatch(s) ==
    LET first == Len(PatternHead) + 1
        n     == RunLen(s, first)
    IN  IF /\ LiteralAt(s, 1, PatternHead)
           /\ n >= 1
           /\ LiteralAt(s, first + n, PatternTail)
           /\ Len(s) = first + n + Len(PatternTail) - 1
        THEN SubSeq(s, first, first + n - 1)
        ELSE NoMatch

\* filename_pattern.match(s), reduced to group(1) or NoMatch.  match() anchors
\* at the start of s only.  The class holds no space, so no shorter run than
\* the greedy one can be followed by the space the pattern asks for.
filename_pattern_match(s) ==
    LET first == Len(PatternHead) + 1
        n     == RunLen(s, first)
    IN  IF /\ LiteralAt(s, 1, PatternHead)
           /\ n >= 1
           /\ LiteralAt(s, first + n, PatternTail)
        THEN SubSeq(s, first, first + n - 1)
        ELSE NoMatch

\* the match main() computes for a line
MatchOf(line) == filename_pattern_match(strip(line))

\* the branch main() takes for a line: `if match:`
IsMarker(line) == MatchOf(line) # NoMatch

\* the characters file.write(line) puts out for each line, in order
RECURSIVE Flatten(_)
Flatten(lines) ==
    IF lines = <<>> THEN <<>> ELSE Head(lines) \o Flatten(Tail(lines))

-----------------------------------------------------------------------------
(* The file system and write_to_file *)

\* the file system with file name holding content (created or replaced)
Store(fs, name, content) ==
    [n \in DOMAIN fs \cup {name} |-> IF n = name THEN content ELSE fs[n]]

\* the content of file name, empty when there is no such file
ContentOf(fs, name) == IF name \in DOMAIN fs THEN fs[name] ELSE <<>>

\* write_to_file with the file opened in mode 'a' instead of 'w'
write_to_file_append(fs, filename, lines) ==
    {[ok |-> TRUE,
      fs |-> Store(fs, filename, ContentOf(fs, filename) \o Flatten(lines))]}
    \cup {[ok |-> FALSE, fs |-> fs]}
    \cup {[ok |-> FALSE,
           fs |-> Store(fs, filename,
                        ContentOf(fs, filename) \o Flatten(SubSeq(lines, 1, k)))] :
            k \in 0..Len(lines)}

\* write_to_file(filename, lines) on file system fs: the set of its possible
\* outcomes [ok, fs].  open(filename, 'w') may raise and leave fs alone; once
\* it has opened (and truncated) the file a write or the close may raise and
\* leave the first k lines in it; else every line is written.
write_to_file(fs, filename, lines) ==
    {[ok |-> TRUE, fs |-> Store(fs, filename, Flatten(lines))]}
    \cup {[ok |-> FALSE, fs |-> fs]}
    \cup {[ok |-> FALSE, fs |-> Store(fs, filename, Flatten(SubSeq(lines, 1, k)))] :
            k \in 0..Len(lines)}

-----------------------------------------------------------------------------
(* Inputs *)

NL == <<"\n">>

\* the file names the modelled inputs use
NameA == <<"a", ".", "t">>
NameB == <<"B", "_", "2">>

\* the marker line text for a name
MarkerText(name) == PatternHead \o name \o PatternTail

\* line texts (without terminator) the inputs are drawn from
TextPlain    == <<"x">>
TextMarkerA  == MarkerText(NameA)
TextMarkerB  == MarkerText(NameB)
\* a marker behind leading whitespace, with trailing whitespace
TextIndented == <<"\t", " ">> \o MarkerText(NameA) \o <<" ">>
\* "===== a t =====": a space inside the name
TextSpaced   == PatternHead \o <<"a", " ", "t">> \o PatternTail
\* "===== B_2 ===== =====": a complete marker followed by more text
TextTrailed  == MarkerText(NameB) \o PatternTail

Texts ==
    {TextPlain, TextMarkerA, TextMarkerB, TextIndented, TextSpaced,
     TextTrailed}

\* sequences of at most n elements of S
SeqsUpTo(S, n) == UNION {[1..k -> S] : k \in 0..n}

\* What iterating sys.stdin yields: every line ends with its terminator,
\* except that the last one may lack it when the stream does not end with one.
StdinLines(texts, terminated) ==
    [i \in DOMAIN texts |->
        IF i = Len(texts) /\ ~terminated THEN texts[i] ELSE texts[i] \o NL]

\* a file left by an earlier run
InitialFiles == [n \in {NameA} |-> <<"o", "l", "d", "\n">>]

-----------------------------------------------------------------------------
(* main() *)

Init ==
    /\ \E texts \in SeqsUpTo(Texts, MaxLen), terminated \in BOOLEAN :
          input = StdinLines(texts, terminated)
    /\ pos = 1
    /\ current_file = None
    /\ current_lines = <<>>
    /\ files = InitialFiles
    /\ writes = <<>>
    /\ pc = "loop"
    /\ segments = <<>>

\* Flush carrying on after a failed write as after a successful one
FlushIgnoringFailure(then_file, then_lines, then_pos, then_pc) ==
    \E out \in write_to_file(files, current_file, current_lines) :
        /\ writes' = Append(writes, [name |-> current_file,
                                     lines |-> current_lines, ok |-> out.ok])
        /\ files' = out.fs
        /\ current_file' = then_file
        /\ current_lines' = then_lines
        /\ pos' = then_pos
        /\ pc' = then_pc

\* the call write_to_file(current_file, current_lines) and what follows it
\* when it returns (then) or raises
Flush(then_file, then_lines, then_pos, then_pc) ==
    \E out \in write_to_file(files, current_file, current_lines) :
        /\ writes' = Append(writes, [name |-> current_file,
                                     lines |-> current_lines, ok |-> out.ok])
        /\ files' = out.fs
        /\ IF out.ok
           THEN /\ current_file' = then_file
                /\ current_lines' = then_lines
                /\ pos' = then_pos
                /\ pc' = then_pc
           ELSE /\ pc' = "failed"
                /\ UNCHANGED <<current_file, current_lines, pos>>

\* ProcessMarker keeping the old name after the write
ProcessMarkerKeepName ==
    /\ pc = "loop"
    /\ pos <= Len(input)
    /\ IsMarker(input[pos])
    /\ IF current_file # None
       THEN Flush(current_file, <<>>, pos + 1, "loop")
       ELSE /\ current_file' = MatchOf(input[pos])
            /\ pos' = pos + 1
            /\ UNCHANGED <<current_lines, files, writes, pc>>
    /\ UNCHANGED <<input, segments>>

\* ProcessMarker keeping the buffer after the write
ProcessMarkerNoReset ==
    /\ pc = "loop"
    /\ pos <= Len(input)
    /\ IsMarker(input[pos])
    /\ IF current_file # None
       THEN Flush(MatchOf(input[pos]), current_lines, pos + 1, "loop")
       ELSE /\ current_file' = MatchOf(input[pos])
            /\ pos' = pos + 1
            /\ UNCHANGED <<current_lines, files, writes, pc>>
    /\ UNCHANGED <<input, segments>>

\* one iteration of the for loop whose line matches: lines 17-22
ProcessMarker ==
    /\ pc = "loop"
    /\ pos <= Len(input)
    /\ IsMarker(input[pos])
    /\ IF current_file # None
       THEN Flush(MatchOf(input[pos]), <<>>, pos + 1, "loop")
       ELSE /\ current_file' = MatchOf(input[pos])
            /\ pos' = pos + 1
            /\ UNCHANGED <<current_lines, files, writes, pc>>
    /\ UNCHANGED <<input, segments>>

\* ProcessLine writing the open segment out at every line it buffers
ProcessLineEarly ==
    /\ pc = "loop"
    /\ pos <= Len(input)
    /\ ~IsMarker(input[pos])
    /\ IF current_file # None
       THEN Flush(current_file, Append(current_lines, input[pos]), pos + 1,
                  "loop")
       ELSE /\ current_lines' = Append(current_lines, input[pos])
            /\ pos' = pos + 1
            /\ UNCHANGED <<current_file, files, writes, pc>>
    /\ UNCHANGED <<input, segments>>

\* ProcessLine buffering the stripped line instead of the line as read
ProcessLineStripped ==
    /\ pc = "loop"
    /\ pos <= Len(input)
    /\ ~IsMarker(input[pos])
    /\ current_lines' = Append(current_lines, strip(input[pos]))
    /\ pos' = pos + 1
    /\ UNCHANGED <<input, current_file, files, writes, pc, segments>>

\* one iteration of the for loop whose line does not match: lines 23-24
ProcessLine ==
    /\ pc = "loop"
    /\ pos <= Len(input)
    /\ ~IsMarker(input[pos])
    /\ current_lines' = Append(current_lines, input[pos])
    /\ pos' = pos + 1
    /\ UNCHANGED <<input, current_file, files, writes, pc, segments>>

\* Finish returning without the write of the segment still open
FinishNoFlush ==
    /\ pc = "loop"
    /\ pos > Len(input)
    /\ pc' = "done"
    /\ UNCHANGED <<input, current_file, current_lines, pos, files, writes,
                   segments>>

\* Finish writing the buffer whether or not a marker was seen
FinishUnguarded ==
    /\ pc = "loop"
    /\ pos > Len(input)
    /\ Flush(current_file, current_lines, pos, "done")
    /\ UNCHANGED <<input, segments>>

\* after the loop: lines 26-27
Finish ==
    /\ pc = "loop"
    /\ pos > Len(input)
    /\ IF current_file # None
       THEN Flush(current_file, current_lines, pos, "done")
       ELSE /\ pc' = "done"
            /\ UNCHANGED <<current_file, current_lines, pos, files, writes>>
    /\ UNCHANGED <<input, segments>>

Next == ProcessMarker \/ ProcessLine \/ Finish

Spec == Init /\ [][Next]_vars

\* main() is a sequential program: it keeps running until it returns or raises
FairSpec == Spec /\ WF_vars(Next)

-----------------------------------------------------------------------------
(* Inputs assembled from named segments *)

\* the lines a segment may hold: each ends with its terminator
SegmentLines == {TextPlain \o NL, TextSpaced \o NL, TextMarkerB \o NL}

\* the pieces an assembled input is laid out from: the start of a segment
\* with a name, or one more line of the segment last started
Pieces ==
    [start : {TRUE}, text : {NameA, NameB}]
        \cup [start : {FALSE}, text : SegmentLines]

\* the named segments a layout describes
RECURSIVE Group(_)
Group(pieces) ==
    IF pieces = <<>> THEN <<>>
    ELSE LET before == Group(SubSeq(pieces, 1, Len(pieces) - 1))
             p      == pieces[Len(pieces)]
         IN  IF p.start
             THEN Append(before, [name |-> p.text, lines |-> <<>>])
             ELSE [before EXCEPT ![Len(before)].lines = Append(@, p.text)]

\* the stream for a sequence of segments: for each, in order, its marker
\* line "===== name =====" and then its lines
RECURSIVE Assemble(_)
Assemble(segs) ==
    IF segs = <<>> THEN <<>>
    ELSE <<MarkerText(Head(segs).name) \o NL>> \o Head(segs).lines
            \o Assemble(Tail(segs))

InitRT ==
    /\ \E pieces \in SeqsUpTo(Pieces, MaxLen) :
          /\ pieces # <<>> => pieces[1].start
          /\ segments = Group(pieces)
    /\ input = Assemble(segments)
    /\ pos = 1
    /\ current_file = None
    /\ current_lines = <<>>
    /\ files = InitialFiles
    /\ writes = <<>>
    /\ pc = "loop"

SpecRT == InitRT /\ [][Next]_vars

-----------------------------------------------------------------------------
(* Vocabulary of the properties *)

\* the indices of the marker lines among the first k lines, in order
RECURSIVE MarkersUpTo(_)
MarkersUpTo(k) ==
    IF k = 0 THEN <<>>
    ELSE IF IsMarker(input[k]) THEN Append(MarkersUpTo(k - 1), k)
         ELSE MarkersUpTo(k - 1)

\* the indices of all marker lines of the input, in order
MarkerIdx == MarkersUpTo(Len(input))

\* the index of the first marker line after index i, or one past the input
RECURSIVE NextMarkerAfter(_)
NextMarkerAfter(i) ==
    IF i >= Len(input) THEN Len(input) + 1
    ELSE IF IsMarker(input[i + 1]) THEN i + 1 ELSE NextMarkerAfter(i + 1)

\* the lines between the marker at index i and the next marker (or the end)
SegmentOf(i) == SubSeq(input, i + 1, NextMarkerAfter(i) - 1)

\* the lines before the first marker line
LeadingLines == SubSeq(input, 1, NextMarkerAfter(0) - 1)

\* how often v occurs in the sequence s
Count(v, s) == Cardinality({i \in DOMAIN s : s[i] = v})

\* the names the marker lines of the input carry
MarkerNames == {MatchOf(input[MarkerIdx[k]]) : k \in DOMAIN MarkerIdx}

\* the index of the last marker line carrying name
LastMarkerOf(name) ==
    LET of == {i \in DOMAIN input : MatchOf(input[i]) = name}
    IN  CHOOSE i \in of : \A j \in of : j <= i

-----------------------------------------------------------------------------
(* C1 *)

\* C1 as stated: once main() has completed on the stream assembled from
\* named segments, every segment's name is a file whose content is exactly
\* that segment's lines.
C1_RoundTripAnySegments ==
    pc = "done" =>
        \A i \in DOMAIN segments :
            /\ segments[i].name \in DOMAIN files
            /\ files[segments[i].name] = Flatten(segments[i].lines)

\* no line of any segment is itself recognised as a marker line
NoMarkerInSegments ==
    \A i \in DOMAIN segments : \A j \in DOMAIN segments[i].lines :
        ~IsMarker(segments[i].lines[j])

\* segment i is the last one of its name
LastOfItsName(i) ==
    \A j \in DOMAIN segments : j > i => segments[j].name # segments[i].name

\* C1 amended: when no line of any segment is itself recognised as a marker
\* line, then once main() has completed on the assembled stream, every
\* segment that is the last one of its name has left a file of that name
\* whose content is exactly that segment's lines, in order and unchanged.
C1_RoundTrip ==
    (pc = "done" /\ NoMarkerInSegments) =>
        \A i \in DOMAIN segments :
            LastOfItsName(i) =>
                /\ segments[i].name \in DOMAIN files
                /\ files[segments[i].name] = Flatten(segments[i].lines)

\* a completed round trip of two differently named segments with two lines
C1_Witness ==
    /\ pc = "done"
    /\ NoMarkerInSegments
    /\ Len(segments) = 2
    /\ segments[1].name # segments[2].name
    /\ Len(segments[1].lines) = 2
    /\ segments[1].lines[1] # segments[1].lines[2]
    /\ files[segments[1].name] = Flatten(segments[1].lines)

-----------------------------------------------------------------------------
(* C2 *)

\* C2: no line read before the first marker line is in the content of any
\* write operation: no write holds more occurrences of such a line than the
\* segment it is written for does.
C2_LeadingContentDropped ==
    \A k \in DOMAIN writes : \A i \in DOMAIN LeadingLines :
        Count(LeadingLines[i], writes[k].lines)
            <= Count(LeadingLines[i], SegmentOf(MarkerIdx[k]))

-----------------------------------------------------------------------------
(* C3 *)

\* C3: the content passed to the k-th write operation, the one for the
\* segment the k-th marker line opens, is precisely the lines between that
\* marker line and the next one (or the end of the input).
C3_WriteIsSegment ==
    \A k \in DOMAIN writes :
        /\ writes[k].name = MatchOf(input[MarkerIdx[k]])
        /\ writes[k].lines = SegmentOf(MarkerIdx[k])

-----------------------------------------------------------------------------
(* C4 *)

\* C4: once main() has completed, a name that two or more marker lines
\* carry is a file whose content is exactly the lines of the last segment
\* opened with that name.
C4_LastWriteWins ==
    pc = "done" =>
        \A name \in MarkerNames :
            Cardinality({i \in DOMAIN input : MatchOf(input[i]) = name}) >= 2 =>
                /\ name \in DOMAIN files
                /\ files[name] = Flatten(SegmentOf(LastMarkerOf(name)))

\* completed, with two segments of one name, the earlier one not empty and
\* different from the later one
C4_Witness ==
    /\ pc = "done"
    /\ Len(MarkerIdx) = 2
    /\ MatchOf(input[MarkerIdx[1]]) = MatchOf(input[MarkerIdx[2]])
    /\ SegmentOf(MarkerIdx[1]) # <<>>
    /\ SegmentOf(MarkerIdx[1]) # SegmentOf(MarkerIdx[2])
    /\ files[MatchOf(input[MarkerIdx[2]])] = Flatten(SegmentOf(MarkerIdx[2]))

-----------------------------------------------------------------------------
(* C5 *)

\* C5: once main() has completed, the files it created or overwrote are
\* exactly the names the marker lines carry, every other file is as it was,
\* and an input without marker lines has caused no write at all.
C5_FilesAreMarkerNames ==
    pc = "done" =>
        /\ {writes[k].name : k \in DOMAIN writes} = MarkerNames
        /\ DOMAIN files = DOMAIN InitialFiles \cup MarkerNames
        /\ \A n \in DOMAIN files \ MarkerNames : files[n] = InitialFiles[n]
        /\ MarkerIdx = <<>> => (writes = <<>> /\ files = InitialFiles)

\* completed after three writes under two names
C5_Witness ==
    /\ pc = "done"
    /\ Cardinality(MarkerNames) = 2
    /\ Len(writes) = 3
    /\ {writes[k].name : k \in DOMAIN writes} = MarkerNames

-----------------------------------------------------------------------------
(* C6 *)

\* whether s ends with t
EndsWith(s, t) ==
    Len(t) <= Len(s) /\ SubSeq(s, Len(s) - Len(t) + 1, Len(s)) = t

\* at the end of an input with a marker line the last write is the one for
\* the last marker line, under its name, with the lines that followed it
FinalSegmentWritten ==
    (pc # "loop" /\ pos > Len(input) /\ MarkerIdx # <<>>) =>
        /\ Len(writes) = Len(MarkerIdx)
        /\ LET w    == writes[Len(writes)]
               last == MarkerIdx[Len(MarkerIdx)]
           IN  /\ w.name = MatchOf(input[last])
               /\ EndsWith(w.lines, SegmentOf(last))
               /\ pc = "done" =>
                    (w.ok /\ EndsWith(files[w.name], Flatten(SegmentOf(last))))

\* C6: the pass over a finite input terminates, and when a marker line was
\* recognised the segment open at the end of the input is written under the
\* last marker's name with all the lines that followed that marker.
C6_FinalSegmentFlushed == <>(pc # "loop") /\ []FinalSegmentWritten

\* completed on an input whose last marker line is followed by two lines
C6_Witness ==
    /\ pc = "done"
    /\ Len(MarkerIdx) = 2
    /\ MarkerIdx[2] = Len(input) - 2
    /\ writes[2].lines = SegmentOf(MarkerIdx[2])
    /\ Len(writes[2].lines) = 2

-----------------------------------------------------------------------------
(* C7 *)

\* the k-th and the (k+1)-th marker line are adjacent lines
Adjacent(k) ==
    /\ k \in DOMAIN MarkerIdx
    /\ k + 1 \in DOMAIN MarkerIdx
    /\ MarkerIdx[k + 1] = MarkerIdx[k] + 1

\* C7: when the input begins with a marker line and a marker line is
\* directly followed by another, the write for the first of the two has no
\* lines and leaves its file empty, and the write for the second has exactly
\* the lines after the second.
C7_ConsecutiveMarkers ==
    (input # <<>> /\ IsMarker(input[1])) =>
        \A k \in DOMAIN writes :
            /\ Adjacent(k) =>
                /\ writes[k].lines = <<>>
                /\ (k = Len(writes) /\ writes[k].ok) =>
                        files[writes[k].name] = <<>>
            /\ Adjacent(k - 1) =>
                /\ writes[k].name = MatchOf(input[MarkerIdx[k]])
                /\ writes[k].lines = SegmentOf(MarkerIdx[k])

\* completed on two adjacent marker lines of different names and one line
\* after them: the first file is empty, the second holds the line
C7_Witness ==
    /\ pc = "done"
    /\ MarkerIdx = <<1, 2>>
    /\ Len(input) > 2
    /\ writes[1].name # writes[2].name
    /\ writes[1].lines = <<>>
    /\ files[writes[1].name] = <<>>
    /\ files[writes[2].name] = Flatten(SubSeq(input, 3, Len(input)))

-----------------------------------------------------------------------------
(* C8 *)

\* the line without its terminator
Chomp(line) ==
    IF line # <<>> /\ line[Len(line)] = "\n"
    THEN SubSeq(line, 1, Len(line) - 1)
    ELSE line

\* the line has the form "===== X =====" for some X
HasMarkerShape(line) ==
    LET t == Chomp(line)
    IN  /\ Len(t) >= Len(PatternHead) + Len(PatternTail)
        /\ LiteralAt(t, 1, PatternHead)
        /\ LiteralAt(t, Len(t) - Len(PatternTail) + 1, PatternTail)

\* the X of a line of the form "===== X ====="
ShapeName(line) ==
    SubSeq(Chomp(line), Len(PatternHead) + 1,
           Len(Chomp(line)) - Len(PatternTail))

\* a line "===== X =====" whose X holds a character outside [A-Za-z0-9._]
BadName(line) ==
    /\ HasMarkerShape(line)
    /\ \E i \in DOMAIN ShapeName(line) : ShapeName(line)[i] \notin IdChar

\* X itself begins with a valid name followed by " ====="
NameHoldsMarkerEnd(line) ==
    \E n \in DOMAIN ShapeName(line) :
        /\ \A i \in 1..n : ShapeName(line)[i] \in IdChar
        /\ LiteralAt(ShapeName(line), n + 1, PatternTail)

\* the step treats the line read as an ordinary line
TreatedAsOrdinary ==
    /\ writes' = writes
    /\ files' = files
    /\ current_file' = current_file
    /\ current_lines' = Append(current_lines, input[pos])

\* C8 as stated: a line "===== X =====" whose X holds a character outside
\* [A-Za-z0-9._] is never recognised as a marker: reading it causes no
\* write and no change of current_file, and appends it to the buffer.
C8_BadNameNeverMarker ==
    [][(pc = "loop" /\ pos <= Len(input) /\ BadName(input[pos]))
            => TreatedAsOrdinary]_vars

\* C8 amended: a line "===== X =====" whose X holds a character outside
\* [A-Za-z0-9._] is not recognised as a marker, unless X itself begins with
\* a valid name followed by " =====" (the line then starts with a complete
\* marker): reading it causes no write and no change of current_file, and
\* appends it unchanged to the buffer.
C8_BadNameOrdinary ==
    [][(/\ pc = "loop"
        /\ pos <= Len(input)
        /\ BadName(input[pos])
        /\ ~NameHoldsMarkerEnd(input[pos]))
            => TreatedAsOrdinary]_vars

\* a line with a space in its name was read while a segment was open and is
\* the last line of the buffer
C8_Witness ==
    /\ pos > 1
    /\ BadName(input[pos - 1])
    /\ ~NameHoldsMarkerEnd(input[pos - 1])
    /\ current_file # None
    /\ writes = <<>>
    /\ Len(current_lines) = 2
    /\ current_lines[2] = input[pos - 1]

-----------------------------------------------------------------------------
(* C9 *)

\* the write j, made before the failed write k, is the last one before k
\* under its name, and its file holds what it wrote
KeptByFailureAt(j, k) ==
    (\A i \in (j + 1)..(k - 1) : writes[i].name # writes[j].name)
        => files[writes[j].name] = Flatten(writes[j].lines)

\* C9 as stated: a failed write is the last thing main() does, and every
\* file written by an earlier flush keeps the content that flush gave it.
C9_WriteFailureAborts ==
    \A k \in DOMAIN writes :
        ~writes[k].ok =>
            /\ k = Len(writes)
            /\ pc = "failed"
            /\ ~ENABLED Next
            /\ \A j \in 1..(k - 1) : KeptByFailureAt(j, k)

\* C9 amended: a failed write is the last thing main() does (no later line
\* is processed, no later write attempted), and every file written by an
\* earlier successful flush under a name other than the failing segment's
\* keeps exactly the content that flush gave it; the file of the failing
\* segment's own name may have been truncated or partly rewritten.
C9_WriteFailureAbortsOthersKept ==
    \A k \in DOMAIN writes :
        ~writes[k].ok =>
            /\ k = Len(writes)
            /\ pc = "failed"
            /\ ~ENABLED Next
            /\ \A j \in 1..(k - 1) :
                writes[j].name # writes[k].name => KeptByFailureAt(j, k)

\* the second write failed at a marker line, before the end of the input,
\* after a successful write of a line under another name
C9_Witness ==
    /\ pc = "failed"
    /\ Len(writes) = 2
    /\ pos <= Len(input)
    /\ writes[1].name # writes[2].name
    /\ writes[1].lines # <<>>
    /\ files[writes[1].name] = Flatten(writes[1].lines)

-----------------------------------------------------------------------------
(* C10 *)

\* the line holds a character that is not whitespace
HasInk(line) == \E i \in DOMAIN line : line[i] \notin Whitespace

\* the line without its leading and its trailing whitespace
Trimmed(line) ==
    IF ~HasInk(line) THEN <<>>
    ELSE LET ink == {i \in DOMAIN line : line[i] \notin Whitespace}
         IN  SubSeq(line, CHOOSE i \in ink : \A j \in ink : i <= j,
                          CHOOSE i \in ink : \A j \in ink : j <= i)

\* the names id for which t starts with "=====", a space, id, a space, "====="
NamesAtStart(t) ==
    {id \in {SubSeq(t, Len(PatternHead) + 1, m) :
                m \in (Len(PatternHead) + 1)..Len(t)} :
        /\ \A i \in DOMAIN id : id[i] \in IdChar
        /\ LiteralAt(t, 1, PatternHead \o id \o PatternTail)}

\* C10: a line is treated as a marker exactly when, with its leading and
\* trailing whitespace removed, it starts with "=====", a space, one or more
\* characters of [A-Za-z0-9._], a space, "====="; the name between becomes
\* current_file, and a file is only ever written under current_file.
C10_MarkerRecognition ==
    [][/\ (pc = "loop" /\ pos <= Len(input)) =>
            IF NamesAtStart(Trimmed(input[pos])) # {}
            THEN \/ /\ current_file' \in NamesAtStart(Trimmed(input[pos]))
                    /\ pos' = pos + 1
                    /\ current_lines' # Append(current_lines, input[pos])
                 \/ /\ pc' = "failed"
                    /\ writes' # writes
            ELSE TreatedAsOrdinary
       /\ writes' # writes =>
            /\ Len(writes') = Len(writes) + 1
            /\ writes'[Len(writes')].name = current_file]_vars

\* an indented marker line was read after another marker, and its name is
\* the current file
C10_Witness ==
    /\ pos > 2
    /\ input[pos - 1] = TextIndented \o NL
    /\ current_file = NameA
    /\ current_lines = <<>>
    /\ Len(writes) = 1
    /\ writes[1].name = NameB

-----------------------------------------------------------------------------
(* C11 *)

\* the writes made so far are those of the segments closed so far: one per
\* marker line read, except the one whose segment is still open, each under
\* its marker's name; a completed run has made one write per marker line
WritesFollowMarkers ==
    /\ \A k \in DOMAIN writes :
          /\ k \in DOMAIN MarkerIdx
          /\ writes[k].name = MatchOf(input[MarkerIdx[k]])
    /\ pc = "loop" =>
          Len(writes) = IF MarkersUpTo(pos - 1) = <<>> THEN 0
                        ELSE Len(MarkersUpTo(pos - 1)) - 1
    /\ pc = "done" => Len(writes) = Len(MarkerIdx)

\* a step that writes makes the one write of the segment of the k-th marker
\* line, and makes it while the next marker line is being processed or after
\* the last line: no line of that segment is still to be read
WriteOnlyAtSegmentEnd ==
    writes' # writes =>
        /\ Len(writes') = Len(writes) + 1
        /\ SubSeq(writes', 1, Len(writes)) = writes
        /\ Len(writes') \in DOMAIN MarkerIdx
        /\ pos = NextMarkerAfter(MarkerIdx[Len(writes')])

\* C11: the segments are written once each and in the order of their marker
\* lines, the k-th write under the k-th marker's name; a write is made only
\* when the next marker line is processed or the input has ended; a run that
\* completes has made as many writes as there are marker lines.
C11_FlushOnceNeverEarly == []WritesFollowMarkers /\ [][WriteOnlyAtSegmentEnd]_vars

\* completed after three writes, the first at the second marker line, with
\* lines in the first and the last segment
C11_Witness ==
    /\ pc = "done"
    /\ Len(writes) = 3
    /\ Len(MarkerIdx) = 3
    /\ writes[1].lines # <<>>
    /\ \A k \in DOMAIN writes : writes[k].name = MatchOf(input[MarkerIdx[k]])

-----------------------------------------------------------------------------
(* C12 *)

\* C12: right after a marker line has been processed, the first one
\* included, current_lines is empty and current_file is the name captured
\* from that marker line.
C12_BufferResetOnMarker ==
    (pos > 1 /\ IsMarker(input[pos - 1])) =>
        /\ current_lines = <<>>
        /\ current_file = MatchOf(input[pos - 1])

-----------------------------------------------------------------------------
(* C13 *)

\* C13: a line that is not a marker line is in the content of no other
\* write than the one of the segment that was open when it was read (no
\* write holds more occurrences of a line than its segment does), and a
\* marker line is in the content of no write.
C13_LineInAtMostItsSegment ==
    \A k \in DOMAIN writes :
        /\ \A i \in DOMAIN writes[k].lines :
              /\ ~IsMarker(writes[k].lines[i])
              /\ Count(writes[k].lines[i], writes[k].lines)
                    <= Count(writes[k].lines[i], SegmentOf(MarkerIdx[k]))

-----------------------------------------------------------------------------
(* C14 *)

\* current_file is None exactly when no marker line is among the lines read
\* so far, and else is the name of the last marker line read
NameIsLastMarker ==
    LET read == MarkersUpTo(pos - 1)
    IN  /\ current_file = None <=> read = <<>>
        /\ read # <<>> => current_file = MatchOf(input[read[Len(read)]])

\* C14: at every point of the pass current_file is None if and only if no
\* marker line has been read so far; once it is a name it never becomes None
\* again, and it is always the name of the most recent marker line read.
C14_TwoStateToggle ==
    []NameIsLastMarker /\ [][current_file # None => current_file' # None]_vars

\* after a marker line of another name than the one before, with a line of
\* the new segment read
C14_Witness ==
    /\ Len(MarkersUpTo(pos - 1)) = 2
    /\ MatchOf(input[MarkerIdx[1]]) # MatchOf(input[MarkerIdx[2]])
    /\ current_file = MatchOf(input[MarkerIdx[2]])
    /\ current_lines # <<>>
    /\ Len(writes) = 1

-----------------------------------------------------------------------------
(* C15 *)

\* C15: processing a line that is not a marker line makes no write, leaves
\* current_file and every file as they are and puts exactly that line, as
\* read, at the end of current_lines; a write is made only while a marker
\* line is processed or after the last line.
C15_OrdinaryLineOnlyBuffers ==
    [][/\ (pc = "loop" /\ pos <= Len(input) /\ ~IsMarker(input[pos])) =>
            /\ writes' = writes
            /\ files' = files
            /\ current_file' = current_file
            /\ Len(current_lines') = Len(current_lines) + 1
            /\ SubSeq(current_lines', 1, Len(current_lines)) = current_lines
            /\ current_lines'[Len(current_lines')] = input[pos]
       /\ (writes' # writes \/ files' # files) =>
            (pos > Len(input) \/ IsMarker(input[pos]))]_vars

\* two lines with their terminators were buffered for an open segment
C15_Witness ==
    /\ pos = 4
    /\ current_file # None
    /\ ~IsMarker(input[2])
    /\ ~IsMarker(input[3])
    /\ input[2] # input[3]
    /\ current_lines = <<input[2], input[3]>>
    /\ writes = <<>>

-----------------------------------------------------------------------------
(* C16 *)

\* the trimmed line starts with a complete marker and goes on after it
HasTrailedMarker(line) ==
    \E id \in NamesAtStart(Trimmed(line)) :
        Len(Trimmed(line)) > Len(MarkerText(id))

\* C16: a line whose trimmed text starts with a complete marker for a name
\* and goes on with more characters is treated as the marker line of that
\* name: the name becomes current_file, the line is not buffered, and no
\* write ever holds such a line.
C16_PrefixMatching ==
    [](\A k \in DOMAIN writes : \A i \in DOMAIN writes[k].lines :
            ~HasTrailedMarker(writes[k].lines[i]))
    /\ [][(pc = "loop" /\ pos <= Len(input) /\ HasTrailedMarker(input[pos])) =>
            \/ /\ current_file' \in NamesAtStart(Trimmed(input[pos]))
               /\ pos' = pos + 1
               /\ current_lines' \in {current_lines, <<>>}
               /\ \A i \in DOMAIN current_lines' :
                     ~HasTrailedMarker(current_lines'[i])
            \/ /\ pc' = "failed"
               /\ writes' # writes
               /\ UNCHANGED <<current_file, current_lines, pos>>]_vars

\* the line "===== B_2 ===== =====" closed a segment of a.t with a line in
\* it and opened B_2
C16_Witness ==
    /\ pos > 2
    /\ input[pos - 1] = TextTrailed \o NL
    /\ HasTrailedMarker(input[pos - 1])
    /\ current_file = NameB
    /\ current_lines = <<>>
    /\ Len(writes) = 1
    /\ writes[1].name = NameA
    /\ writes[1].lines # <<>>

-----------------------------------------------------------------------------
(* C17 *)

\* The streamed variant of the pass, after the first k lines: at a marker
\* line it opens, truncating, the file of the marker's name; it writes every
\* other line straight to the open file, and ignores it while none is open.
\* [fs, handle]: the file system and the name of the open file (or None).
RECURSIVE StreamedRun(_)
StreamedRun(k) ==
    IF k = 0 THEN [fs |-> InitialFiles, handle |-> None]
    ELSE LET before == StreamedRun(k - 1)
         IN  IF IsMarker(input[k])
             THEN [fs     |-> Store(before.fs, MatchOf(input[k]), <<>>),
                   handle |-> MatchOf(input[k])]
             ELSE IF before.handle = None THEN before
             ELSE [fs     |-> Store(before.fs, before.handle,
                                    before.fs[before.handle] \o input[k]),
                   handle |-> before.handle]

\* the files the streamed variant ends with
StreamedFiles == StreamedRun(Len(input)).fs

\* C17: when main() completes, the files are the same, with the same
\* content, as those the streamed variant ends with on the same input.
C17_StreamedEquivalent == pc = "done" => files = StreamedFiles

====
